---- MODULE Spec2Model ----
(***************************************************************************)
(* DarkNet-19 and DarkNet-53 (src/nets/nn.py) as a state machine over a    *)
(* heap of module objects.  A module is a record; its children are heap    *)
(* indices, so that two containers holding the same index hold the same    *)
(* module instance.  Tensors are modelled by their shapes.                 *)
(***************************************************************************)
EXTENDS Integers, Sequences, FiniteSets, TLC

VARIABLES heap, pc, num_classes, init_weight, darknet19, darknet53,
          block53, visited, nparams19, nparams53, x, out19, out53, feat19, feat53,
          obj, objargs, objin, objout

vars == <<heap, pc, num_classes, init_weight, darknet19, darknet53,
          block53, visited, nparams19, nparams53, x, out19, out53, feat19, feat53,
          obj, objargs, objin, objout>>

(***************************************************************************)
(* Bounds of the explored inputs.                                          *)
(***************************************************************************)
MaxClasses == 2
MaxN == 2
MaxH == 34
MaxC1 == 5
MaxBlocks == 2
MaxObjHW == 2
MaxConvC == 2

(***************************************************************************)
(* Program constants.                                                      *)
(***************************************************************************)
DriverClasses == 1000
DriverSize == 256
InChannels == 3
FeatureChannels == 1024

NumClasses == (1 .. MaxClasses) \cup {DriverClasses}
Blocks == {"ResidualBlock", "Conv2dBias"}
Heights == (1 .. MaxH) \cup {63, 64, 65, DriverSize}
Widths == {1, 32, 33, 64, DriverSize}
Inputs == {<<n, InChannels, h, w>> : n \in 1 .. MaxN, h \in Heights, w \in Widths}

NoPad == 0 - 1
Err == <<>>

(***************************************************************************)
(* Module records.  w and b are the initialisation state of the module's   *)
(* weight and bias: "none" (no such parameter), "default" (the framework's *)
(* reset at construction) or the name of the rule that was applied.        *)
(***************************************************************************)
Module(kind, ch, c1, c2, k, s, p, g, w, b) ==
    [kind |-> kind, ch |-> ch, c1 |-> c1, c2 |-> c2, k |-> k, s |-> s,
     p |-> p, g |-> g, w |-> w, b |-> b]

Container(kind, ch) == Module(kind, ch, 0, 0, 0, 0, 0, 0, "none", "none")

auto_pad(k, p) == IF p = NoPad THEN k \div 2 ELSE p

Conv2d(c1, c2, k, s, p, g, bias) ==
    Module("Conv2d", <<>>, c1, c2, k, s, p, g, "default",
           IF bias THEN "default" ELSE "none")

BatchNorm2d(c) == Module("BatchNorm2d", <<>>, c, c, 0, 0, 0, 0, "default", "default")

Linear(c1, c2) == Module("Linear", <<>>, c1, c2, 0, 0, 0, 0, "default", "default")

\* Mutant: the pooling stride is left at 1.
MaxPool2dStride1(k, s) == Module("MaxPool2d", <<>>, 0, 0, k, 1, 0, 0, "none", "none")

MaxPool2d(k, s) == Module("MaxPool2d", <<>>, 0, 0, k, s, 0, 0, "none", "none")

Activation(act) == Container(IF act THEN "LeakyReLU" ELSE "ReLU", <<>>)

\* F applied to the value of v: a statement's result is computed once, before
\* the statements that use it.
Let(v, F(_)) == CHOOSE r \in {F(c) : c \in {v}} : TRUE

\* nn.Module.__init__ followed by the attribute assignments of a constructor:
\* the object is allocated first, its sub-modules after it, in source order.
Alloc(h, m) == [heap |-> Append(h, m), id |-> Len(h) + 1]

SetChildren(h, id, ch) == [h EXCEPT ![id].ch = ch]

\* Mutant: the channel arguments of nn.Conv2d are swapped.
ConvSwapped(h, c1, c2, k, s, p, g, act) ==
    LET self == Len(h) + 1
        h1 == Append(h, Container("Conv", <<>>))
        h2 == Append(h1, Conv2d(c2, c1, k, s, auto_pad(k, p), g, FALSE))
        h3 == Append(h2, BatchNorm2d(c2))
        h4 == Append(h3, Activation(act))
    IN  [heap |-> SetChildren(h4, self, <<self + 1, self + 2, self + 3>>),
         id |-> self]

\* Mutant: the padding is not passed to nn.Conv2d.
ConvNoPad(h, c1, c2, k, s, p, g, act) ==
    LET self == Len(h) + 1
        h1 == Append(h, Container("Conv", <<>>))
        h2 == Append(h1, Conv2d(c1, c2, k, s, 0, g, FALSE))
        h3 == Append(h2, BatchNorm2d(c2))
        h4 == Append(h3, Activation(act))
    IN  [heap |-> SetChildren(h4, self, <<self + 1, self + 2, self + 3>>),
         id |-> self]

Conv(h, c1, c2, k, s, p, g, act) ==
    LET self == Len(h) + 1
        h1 == Append(h, Container("Conv", <<>>))
        h2 == Append(h1, Conv2d(c1, c2, k, s, auto_pad(k, p), g, FALSE))
        h3 == Append(h2, BatchNorm2d(c2))
        h4 == Append(h3, Activation(act))
    IN  [heap |-> SetChildren(h4, self, <<self + 1, self + 2, self + 3>>),
         id |-> self]

\* Mutant: layer2 does not restore the channel count.
ResidualBlockNarrow(h, c1) ==
    LET self == Len(h) + 1
        c2 == c1 \div 2
        h1 == Append(h, Container("ResidualBlock", <<>>))
    IN  Let(Conv(h1, c1, c2, 1, 1, 0, 1, TRUE), LAMBDA layer1 :
        Let(Conv(layer1.heap, c2, c2, 3, 1, NoPad, 1, TRUE), LAMBDA layer2 :
            [heap |-> SetChildren(layer2.heap, self, <<layer1.id, layer2.id>>),
             id |-> self]))

ResidualBlock(h, c1) ==
    LET self == Len(h) + 1
        c2 == c1 \div 2
        h1 == Append(h, Container("ResidualBlock", <<>>))
    IN  Let(Conv(h1, c1, c2, 1, 1, 0, 1, TRUE), LAMBDA layer1 :
        Let(Conv(layer1.heap, c2, c1, 3, 1, NoPad, 1, TRUE), LAMBDA layer2 :
            [heap |-> SetChildren(layer2.heap, self, <<layer1.id, layer2.id>>),
             id |-> self]))

\* block(in_channels), for the block DarkNet53 is given: ResidualBlock, or a
\* callable c -> nn.Conv2d(c, c, 1), a block whose convolution has a bias.
CallBlock(h, block, c) ==
    IF block = "ResidualBlock" THEN ResidualBlock(h, c)
    ELSE Alloc(h, Conv2d(c, c, 1, 1, 0, 1, TRUE))

Sequential(h, ids) == Alloc(h, Container("Sequential", ids))

\* Mutant: the loop runs over range(1, num_blocks).
RECURSIVE make_blocks_from_one(_, _, _, _, _)
make_blocks_from_one(h, block, in_channels, num_blocks, layers) ==
    IF num_blocks <= 1 THEN [heap |-> h, ids |-> layers]
    ELSE Let(CallBlock(h, block, in_channels), LAMBDA b :
             make_blocks_from_one(b.heap, block, in_channels, num_blocks - 1,
                                  Append(layers, b.id)))

RECURSIVE make_blocks(_, _, _, _, _)
make_blocks(h, block, in_channels, num_blocks, layers) ==
    IF num_blocks <= 0 THEN [heap |-> h, ids |-> layers]
    ELSE Let(CallBlock(h, block, in_channels), LAMBDA b :
             make_blocks(b.heap, block, in_channels, num_blocks - 1,
                         Append(layers, b.id)))

make_layer(h, block, in_channels, num_blocks) ==
    Let(make_blocks(h, block, in_channels, num_blocks, <<>>), LAMBDA ls :
        Sequential(ls.heap, ls.ids))

Unpack(h, id) == h[id].ch

(***************************************************************************)
(* The layer schedules, as written in the two constructors:                *)
(* <<"Conv", c1, c2, k, s>>, <<"MaxPool2d", k, s>>,                        *)
(* <<"make_layer", in_channels, num_blocks>>.                              *)
(***************************************************************************)
Features19Args ==
    << <<"Conv", 3, 32, 3, 1>>,
       <<"MaxPool2d", 2, 2>>,
       <<"Conv", 32, 64, 3, 1>>,
       <<"MaxPool2d", 2, 2>>,
       <<"Conv", 64, 128, 3, 1>>,
       <<"Conv", 128, 64, 1, 1>>,
       <<"Conv", 64, 128, 3, 1>>,
       <<"MaxPool2d", 2, 2>>,
       <<"Conv", 128, 256, 3, 1>>,
       <<"Conv", 256, 128, 1, 1>>,
       <<"Conv", 128, 256, 3, 1>>,
       <<"MaxPool2d", 2, 2>>,
       <<"Conv", 256, 512, 3, 1>>,
       <<"Conv", 512, 256, 1, 1>>,
       <<"Conv", 256, 512, 3, 1>>,
       <<"Conv", 512, 256, 1, 1>>,
       <<"Conv", 256, 512, 3, 1>>,
       <<"MaxPool2d", 2, 2>>,
       <<"Conv", 512, 1024, 3, 1>>,
       <<"Conv", 1024, 512, 1, 1>>,
       <<"Conv", 512, 1024, 3, 1>>,
       <<"Conv", 1024, 512, 1, 1>>,
       <<"Conv", 512, 1024, 3, 1>> >>

\* Mutant: the third stage has 4 blocks.
Features53ArgsFourBlocks ==
    << <<"Conv", 3, 32, 3, 1>>,
       <<"Conv", 32, 64, 3, 2>>,
       <<"make_layer", 64, 1>>,
       <<"Conv", 64, 128, 3, 2>>,
       <<"make_layer", 128, 2>>,
       <<"Conv", 128, 256, 3, 2>>,
       <<"make_layer", 256, 4>>,
       <<"Conv", 256, 512, 3, 2>>,
       <<"make_layer", 512, 8>>,
       <<"Conv", 512, 1024, 3, 2>>,
       <<"make_layer", 1024, 4>> >>

Features53Args ==
    << <<"Conv", 3, 32, 3, 1>>,
       <<"Conv", 32, 64, 3, 2>>,
       <<"make_layer", 64, 1>>,
       <<"Conv", 64, 128, 3, 2>>,
       <<"make_layer", 128, 2>>,
       <<"Conv", 128, 256, 3, 2>>,
       <<"make_layer", 256, 8>>,
       <<"Conv", 256, 512, 3, 2>>,
       <<"make_layer", 512, 8>>,
       <<"Conv", 512, 1024, 3, 2>>,
       <<"make_layer", 1024, 4>> >>

\* The arguments of nn.Sequential(...) are evaluated left to right.
RECURSIVE build_layers(_, _, _, _)
build_layers(h, args, block, ids) ==
    IF args = <<>> THEN [heap |-> h, ids |-> ids]
    ELSE LET a == Head(args)
         IN  IF a[1] = "Conv"
             THEN Let(Conv(h, a[2], a[3], a[4], a[5], NoPad, 1, TRUE), LAMBDA c :
                      build_layers(c.heap, Tail(args), block, Append(ids, c.id)))
             ELSE IF a[1] = "MaxPool2d"
             THEN Let(Alloc(h, MaxPool2d(a[2], a[3])), LAMBDA m :
                      build_layers(m.heap, Tail(args), block, Append(ids, m.id)))
             ELSE Let(make_layer(h, block, a[2], a[3]), LAMBDA l :
                      build_layers(l.heap, Tail(args), block,
                                   ids \o Unpack(l.heap, l.id)))

DarkNet19Features(h) ==
    Let(build_layers(h, Features19Args, "ResidualBlock", <<>>), LAMBDA ls :
        Sequential(ls.heap, ls.ids))

DarkNet19Classifier(h, features, nc) ==
    Let(Conv(h, FeatureChannels, nc, 1, 1, NoPad, 1, TRUE), LAMBDA head :
    Let(Alloc(head.heap, Container("GlobalAvgPool2d", <<>>)), LAMBDA gap :
    Let(Alloc(gap.heap, Container("Softmax", <<>>)), LAMBDA sm :
        Sequential(sm.heap, Unpack(h, features) \o <<head.id, gap.id, sm.id>>))))

DarkNet53Features(h, block) ==
    Let(build_layers(h, Features53Args, block, <<>>), LAMBDA ls :
        Sequential(ls.heap, ls.ids))

\* Mutant: features is passed whole instead of unpacked.
DarkNet53ClassifierNested(h, features, nc) ==
    Let(Alloc(h, Container("GlobalAvgPool2d", <<>>)), LAMBDA gap :
    Let(Alloc(gap.heap, Linear(FeatureChannels, nc)), LAMBDA fc :
    Let(Alloc(fc.heap, Container("Softmax", <<>>)), LAMBDA sm :
        Sequential(sm.heap, <<features, gap.id, fc.id, sm.id>>))))

DarkNet53Classifier(h, features, nc) ==
    Let(Alloc(h, Container("GlobalAvgPool2d", <<>>)), LAMBDA gap :
    Let(Alloc(gap.heap, Linear(FeatureChannels, nc)), LAMBDA fc :
    Let(Alloc(fc.heap, Container("Softmax", <<>>)), LAMBDA sm :
        Sequential(sm.heap, Unpack(h, features) \o <<gap.id, fc.id, sm.id>>))))

(***************************************************************************)
(* self.modules(): the module and its descendants, each instance once, in  *)
(* pre-order.                                                              *)
(***************************************************************************)
InSeq(e, q) == \E i \in 1 .. Len(q) : q[i] = e

\* named_modules(memo): a module not yet in memo is recorded, then its
\* children are walked in registration order with the same memo.
RECURSIVE named_modules(_, _, _)
RECURSIVE named_children(_, _, _)
named_children(h, ids, memo) ==
    IF ids = <<>> THEN memo
    ELSE Let(named_modules(h, Head(ids), memo), LAMBDA memo1 :
             named_children(h, Tail(ids), memo1))

named_modules(h, id, memo) ==
    IF InSeq(id, memo) THEN memo
    ELSE Let(Append(memo, id), LAMBDA memo1 : named_children(h, h[id].ch, memo1))

modules(h, self) == named_modules(h, self, <<>>)

\* The type dispatch of DarkNet19._initialize_weights, for one visited module.
init_rule19(m) ==
    IF m.kind = "Conv2d"
    THEN [m EXCEPT !.w = "kaiming_normal_fan_in_leaky_relu",
                   !.b = IF m.b # "none" THEN "zeros" ELSE m.b]
    ELSE IF m.kind = "BatchNorm2d"
    THEN [m EXCEPT !.w = "ones", !.b = "zeros"]
    ELSE IF m.kind = "Linear"
    THEN [m EXCEPT !.w = "normal_0_001", !.b = "zeros"]
    ELSE m

initialize_weights19(h, self) ==
    Let(modules(h, self), LAMBDA ms :
        [i \in 1 .. Len(h) |-> IF InSeq(i, ms) THEN init_rule19(h[i]) ELSE h[i]])

\* Mutant: the Linear branch is missing and BatchNorm2d's weight is set to 0.
init_rule53_wrong(m) ==
    IF m.kind = "Conv2d"
    THEN [m EXCEPT !.w = "kaiming_normal_fan_in_leaky_relu",
                   !.b = IF m.b # "none" THEN "zeros" ELSE m.b]
    ELSE IF m.kind = "BatchNorm2d"
    THEN [m EXCEPT !.w = "zeros", !.b = "zeros"]
    ELSE m

\* The type dispatch of DarkNet53._initialize_weights, for one visited module.
init_rule53(m) ==
    IF m.kind = "Conv2d"
    THEN [m EXCEPT !.w = "kaiming_normal_fan_in_leaky_relu",
                   !.b = IF m.b # "none" THEN "zeros" ELSE m.b]
    ELSE IF m.kind = "BatchNorm2d"
    THEN [m EXCEPT !.w = "ones", !.b = "zeros"]
    ELSE IF m.kind = "Linear"
    THEN [m EXCEPT !.w = "normal_0_001", !.b = "zeros"]
    ELSE m

initialize_weights53(h, self) ==
    Let(modules(h, self), LAMBDA ms :
        [i \in 1 .. Len(h) |-> IF InSeq(i, ms) THEN init_rule53(h[i]) ELSE h[i]])

SeqToSet(q) == {q[i] : i \in 1 .. Len(q)}

(***************************************************************************)
(* forward(), on shapes.  Err is an exception raised by the framework.     *)
(* Every module is in training mode: nn.Module sets training = True and    *)
(* nothing in nn.py calls eval(), so BatchNorm2d rejects an input that has *)
(* a single value per channel.                                             *)
(***************************************************************************)
ConvOut(n, k, s, p) == (n + 2 * p - k) \div s + 1

Conv2dForward(m, t) ==
    IF Len(t) # 4 \/ t[2] # m.c1 THEN Err
    ELSE IF t[3] + 2 * m.p < m.k \/ t[4] + 2 * m.p < m.k THEN Err
    ELSE <<t[1], m.c2, ConvOut(t[3], m.k, m.s, m.p), ConvOut(t[4], m.k, m.s, m.p)>>

BatchNorm2dForward(m, t) ==
    IF Len(t) # 4 \/ t[2] # m.c1 THEN Err
    ELSE IF t[1] * t[3] * t[4] = 1 THEN Err
    ELSE t

MaxPool2dForward(m, t) ==
    IF Len(t) # 4 THEN Err
    ELSE IF t[3] < m.k \/ t[4] < m.k THEN Err
    ELSE <<t[1], t[2], ConvOut(t[3], m.k, m.s, m.p), ConvOut(t[4], m.k, m.s, m.p)>>

GlobalAvgPool2dForward(t) == IF Len(t) # 4 THEN Err ELSE <<t[1], t[2]>>

LinearForward(m, t) ==
    IF t[Len(t)] # m.c1 THEN Err ELSE [t EXCEPT ![Len(t)] = m.c2]

\* out += residual: residual is broadcast to the shape of out.
Add(out, residual) ==
    IF Len(out) = Len(residual)
       /\ \A i \in 1 .. Len(out) : residual[i] = out[i] \/ residual[i] = 1
    THEN out ELSE Err

\* Mutant: batch normalisation is applied before the convolution.
ConvForwardOrderBnFirst(m) == <<m.ch[2], m.ch[1], m.ch[3]>>

\* Conv.forward: self.act(self.bn(self.conv(x))), innermost call first.
ConvForwardOrder(m) == <<m.ch[1], m.ch[2], m.ch[3]>>

RECURSIVE forward(_, _, _)
RECURSIVE forward_all(_, _, _)
forward_all(h, ids, t) ==
    IF ids = <<>> THEN t
    ELSE Let(forward(h, Head(ids), t), LAMBDA out :
             forward_all(h, Tail(ids), out))

ResidualBlockForward(h, m, t) ==
    LET residual == t
    IN  Let(forward(h, m.ch[1], t), LAMBDA out1 :
        Let(forward(h, m.ch[2], out1), LAMBDA out2 :
            IF out2 = Err THEN Err ELSE Add(out2, residual)))

forward(h, id, t) ==
    LET m == h[id]
    IN  IF t = Err THEN Err
        ELSE CASE m.kind = "Conv2d" -> Conv2dForward(m, t)
               [] m.kind = "BatchNorm2d" -> BatchNorm2dForward(m, t)
               [] m.kind = "MaxPool2d" -> MaxPool2dForward(m, t)
               [] m.kind = "GlobalAvgPool2d" -> GlobalAvgPool2dForward(t)
               [] m.kind = "Linear" -> LinearForward(m, t)
               [] m.kind \in {"LeakyReLU", "ReLU", "Softmax"} -> t
               [] m.kind = "Conv" -> forward_all(h, ConvForwardOrder(m), t)
               [] m.kind = "ResidualBlock" -> ResidualBlockForward(h, m, t)
               [] m.kind = "Sequential" -> forward_all(h, m.ch, t)
               [] m.kind \in {"DarkNet19", "DarkNet53"} -> forward(h, m.ch[2], t)

(***************************************************************************)
(* forward(), as a data-flow expression in postfix form over the input 0:  *)
(* a leaf module appends its heap index, the addition appends AddOp.       *)
(***************************************************************************)
AddOp == 0 - 1

RECURSIVE forward_expr(_, _, _)
RECURSIVE forward_expr_all(_, _, _)
forward_expr_all(h, ids, e) ==
    IF ids = <<>> THEN e
    ELSE Let(forward_expr(h, Head(ids), e), LAMBDA out :
             forward_expr_all(h, Tail(ids), out))

ResidualBlockExpr(h, m, e) ==
    LET residual == e
    IN  Let(forward_expr(h, m.ch[1], e), LAMBDA out1 :
        Let(forward_expr(h, m.ch[2], out1), LAMBDA out2 :
            out2 \o residual \o <<AddOp>>))

forward_expr(h, id, e) ==
    LET m == h[id]
    IN  CASE m.kind = "Conv" -> forward_expr_all(h, ConvForwardOrder(m), e)
          [] m.kind = "ResidualBlock" -> ResidualBlockExpr(h, m, e)
          [] m.kind = "Sequential" -> forward_expr_all(h, m.ch, e)
          [] OTHER -> Append(e, id)

(***************************************************************************)
(* sum(p.numel() for p in net.parameters() if p.requires_grad): every      *)
(* parameter requires a gradient, and parameters() walks the modules once  *)
(* per instance.                                                           *)
(***************************************************************************)
numel(m) ==
    IF m.kind = "Conv2d"
    THEN m.c2 * (m.c1 \div m.g) * m.k * m.k + (IF m.b # "none" THEN m.c2 ELSE 0)
    ELSE IF m.kind = "BatchNorm2d" THEN 2 * m.c1
    ELSE IF m.kind = "Linear" THEN m.c1 * m.c2 + m.c2
    ELSE 0

RECURSIVE SumNumel(_, _)
SumNumel(h, ids) ==
    IF ids = <<>> THEN 0
    ELSE IF Len(ids) = 1 THEN numel(h[ids[1]])
    ELSE LET half == Len(ids) \div 2
         IN  SumNumel(h, SubSeq(ids, 1, half))
             + SumNumel(h, SubSeq(ids, half + 1, Len(ids)))

count_params(h, self) == Let(modules(h, self), LAMBDA ms : SumNumel(h, ms))

(***************************************************************************)
(* The program.  pc is the position in the driver (__main__), in a         *)
(* constructor it calls, or in a direct use of the module's classes.       *)
(* visited records the modules that a loop of _initialize_weights has      *)
(* reached; objargs records the arguments a directly used object was made  *)
(* with.                                                                   *)
(***************************************************************************)
Init ==
    /\ heap = <<>>
    /\ pc = "start"
    /\ num_classes = 0
    /\ init_weight = FALSE
    /\ block53 = "ResidualBlock"
    /\ darknet19 = 0
    /\ darknet53 = 0
    /\ visited = {}
    /\ nparams19 = 0
    /\ nparams53 = 0
    /\ x = Err
    /\ out19 = Err
    /\ out53 = Err
    /\ feat19 = Err
    /\ feat53 = Err
    /\ obj = 0
    /\ objargs = [cls |-> "none"]
    /\ objin = Err
    /\ objout = Err

Results == <<nparams19, nparams53, x, out19, out53, feat19, feat53>>
Args == <<num_classes, init_weight, block53>>
Lib == <<obj, objargs, objin, objout>>

\* DarkNet19(num_classes, init_weight): super().__init__().  The driver gives
\* both networks the same num_classes and init_weight.
New19 ==
    /\ pc = "start"
    /\ num_classes' \in NumClasses
    /\ init_weight' \in BOOLEAN
    /\ heap' = Append(heap, Container("DarkNet19", <<>>))
    /\ darknet19' = Len(heap) + 1
    /\ pc' = "init19"
    /\ UNCHANGED <<block53, darknet53, visited, Results, Lib>>

\* if init_weight: self._initialize_weights()
InitWeights19 ==
    /\ pc = "init19"
    /\ IF init_weight
       THEN /\ heap' = initialize_weights19(heap, darknet19)
            /\ visited' = visited \cup SeqToSet(modules(heap, darknet19))
       ELSE UNCHANGED <<heap, visited>>
    /\ pc' = "features19"
    /\ UNCHANGED <<Args, darknet19, darknet53, Results, Lib>>

\* self.features = nn.Sequential(...)
Features19 ==
    /\ pc = "features19"
    /\ \E f \in {DarkNet19Features(heap)} :
          heap' = SetChildren(f.heap, darknet19, <<f.id>>)
    /\ pc' = "classifier19"
    /\ UNCHANGED <<Args, darknet19, darknet53, visited, Results, Lib>>

\* self.classifier = nn.Sequential(*self.features, ...)
Classifier19 ==
    /\ pc = "classifier19"
    /\ \E c \in {DarkNet19Classifier(heap, heap[darknet19].ch[1], num_classes)} :
          heap' = SetChildren(c.heap, darknet19, <<heap[darknet19].ch[1], c.id>>)
    /\ pc' = "new53"
    /\ UNCHANGED <<Args, darknet19, darknet53, visited, Results, Lib>>

\* DarkNet53(block, num_classes, init_weight): super().__init__()
New53 ==
    /\ pc = "new53"
    /\ \E b \in Blocks : block53' = b
    /\ heap' = Append(heap, [Container("DarkNet53", <<>>) EXCEPT !.c2 = num_classes])
    /\ darknet53' = Len(heap) + 1
    /\ pc' = "init53"
    /\ UNCHANGED <<num_classes, init_weight, darknet19, visited, Results, Lib>>

InitWeights53 ==
    /\ pc = "init53"
    /\ IF init_weight
       THEN /\ heap' = initialize_weights53(heap, darknet53)
            /\ visited' = visited \cup SeqToSet(modules(heap, darknet53))
       ELSE UNCHANGED <<heap, visited>>
    /\ pc' = "features53"
    /\ UNCHANGED <<Args, darknet19, darknet53, Results, Lib>>

Features53 ==
    /\ pc = "features53"
    /\ \E f \in {DarkNet53Features(heap, block53)} :
          heap' = SetChildren(f.heap, darknet53, <<f.id>>)
    /\ pc' = "classifier53"
    /\ UNCHANGED <<Args, darknet19, darknet53, visited, Results, Lib>>

Classifier53 ==
    /\ pc = "classifier53"
    /\ \E c \in {DarkNet53Classifier(heap, heap[darknet53].ch[1], num_classes)} :
          heap' = SetChildren(c.heap, darknet53, <<heap[darknet53].ch[1], c.id>>)
    /\ pc' = "built"
    /\ UNCHANGED <<Args, darknet19, darknet53, visited, Results, Lib>>

\* A caller invokes net._initialize_weights() on a constructed network.
CallInitWeights ==
    /\ pc = "built"
    /\ \E net \in {darknet19, darknet53} :
          /\ heap' = IF net = darknet19 THEN initialize_weights19(heap, net)
                                        ELSE initialize_weights53(heap, net)
          /\ visited' = visited \cup SeqToSet(modules(heap, net))
    /\ pc' = "called"
    /\ UNCHANGED <<Args, darknet19, darknet53, Results, Lib>>

\* The two parameter counts the driver prints.
CountParams ==
    /\ pc = "built"
    /\ nparams19' = count_params(heap, darknet19)
    /\ nparams53' = count_params(heap, darknet53)
    /\ pc' = "counted"
    /\ UNCHANGED <<heap, Args, darknet19, darknet53, visited, x, out19, out53,
                   feat19, feat53, Lib>>

\* x = torch.randn(N, 3, H, W)
Randn ==
    /\ pc = "counted"
    /\ x' \in Inputs
    /\ pc' = "input"
    /\ UNCHANGED <<heap, Args, darknet19, darknet53, visited, nparams19,
                   nparams53, out19, out53, feat19, feat53, Lib>>

\* darknet19(x), darknet53(x), darknet19_features(x), darknet53_features(x)
Forward19 ==
    /\ pc = "input"
    /\ out19' = forward(heap, darknet19, x)
    /\ pc' = "out19"
    /\ UNCHANGED <<heap, Args, darknet19, darknet53, visited, nparams19,
                   nparams53, x, out53, feat19, feat53, Lib>>

Forward53 ==
    /\ pc = "out19"
    /\ out53' = forward(heap, darknet53, x)
    /\ pc' = "out53"
    /\ UNCHANGED <<heap, Args, darknet19, darknet53, visited, nparams19,
                   nparams53, x, out19, feat19, feat53, Lib>>

FeaturesForward19 ==
    /\ pc = "out53"
    /\ feat19' = forward(heap, heap[darknet19].ch[1], x)
    /\ pc' = "feat19"
    /\ UNCHANGED <<heap, Args, darknet19, darknet53, visited, nparams19,
                   nparams53, x, out19, out53, feat53, Lib>>

FeaturesForward53 ==
    /\ pc = "feat19"
    /\ feat53' = forward(heap, heap[darknet53].ch[1], x)
    /\ pc' = "done"
    /\ UNCHANGED <<heap, Args, darknet19, darknet53, visited, nparams19,
                   nparams53, x, out19, out53, feat19, Lib>>

(***************************************************************************)
(* Direct uses of Conv, ResidualBlock and DarkNet53._make_layer.           *)
(***************************************************************************)
ObjInputs == {<<n, c, hh, ww>> : n \in 1 .. MaxN, c \in 1 .. MaxC1,
                                 hh \in 1 .. MaxObjHW, ww \in 1 .. MaxObjHW}

NewConv ==
    /\ pc = "start"
    /\ \E c1 \in 1 .. MaxConvC, c2 \in 1 .. MaxConvC, k \in {1, 3}, s \in {1, 2},
          p \in {NoPad, 0, 1}, act \in BOOLEAN :
          \E c \in {Conv(heap, c1, c2, k, s, p, 1, act)} :
             /\ heap' = c.heap
             /\ obj' = c.id
             /\ objargs' = [cls |-> "Conv", c1 |-> c1, c2 |-> c2, k |-> k,
                            s |-> s, p |-> p, act |-> act]
    /\ pc' = "lib"
    /\ UNCHANGED <<Args, darknet19, darknet53, visited, Results, objin, objout>>

NewResidualBlock ==
    /\ pc = "start"
    /\ \E c1 \in 2 .. MaxC1 :
          \E r \in {ResidualBlock(heap, c1)} :
             /\ heap' = r.heap
             /\ obj' = r.id
             /\ objargs' = [cls |-> "ResidualBlock", c1 |-> c1]
    /\ pc' = "lib"
    /\ UNCHANGED <<Args, darknet19, darknet53, visited, Results, objin, objout>>

CallMakeLayer ==
    /\ pc = "start"
    /\ \E b \in Blocks, c \in 2 .. MaxC1, n \in 0 .. MaxBlocks :
          \E l \in {make_layer(heap, b, c, n)} :
             /\ heap' = l.heap
             /\ obj' = l.id
             /\ objargs' = [cls |-> "make_layer", block |-> b, c1 |-> c, n |-> n]
    /\ pc' = "lib"
    /\ UNCHANGED <<Args, darknet19, darknet53, visited, Results, objin, objout>>

ForwardObj ==
    /\ pc = "lib"
    /\ \E t \in ObjInputs : objin' = t /\ objout' = forward(heap, obj, t)
    /\ pc' = "libdone"
    /\ UNCHANGED <<heap, Args, darknet19, darknet53, visited, Results, obj,
                   objargs>>

Next ==
    \/ New19 \/ InitWeights19 \/ Features19 \/ Classifier19
    \/ New53 \/ InitWeights53 \/ Features53 \/ Classifier53
    \/ CallInitWeights \/ CountParams \/ Randn
    \/ Forward19 \/ Forward53 \/ FeaturesForward19 \/ FeaturesForward53
    \/ NewConv \/ NewResidualBlock \/ CallMakeLayer \/ ForwardObj

Spec == Init /\ [][Next]_vars

(***************************************************************************)
(* Properties.                                                             *)
(***************************************************************************)
Features(net) == heap[net].ch[1]
Classifier(net) == heap[net].ch[2]

KindCount(ids, kinds) == Cardinality({i \in ids : heap[i].kind \in kinds})

TopCount(q, kinds) == Cardinality({j \in 1 .. Len(q) : heap[q[j]].kind \in kinds})

\* The Conv2d inside a Conv block.
ConvOf(i) == heap[heap[i].ch[1]]

\* Input and output channel count of a layer of a classifier; 0 for a layer
\* that has no channel parameter.
InCh(i) ==
    CASE heap[i].kind = "Conv" -> ConvOf(i).c1
      [] heap[i].kind = "ResidualBlock" -> ConvOf(heap[i].ch[1]).c1
      [] heap[i].kind \in {"Linear", "Conv2d"} -> heap[i].c1
      [] OTHER -> 0

OutCh(i) ==
    CASE heap[i].kind = "Conv" -> ConvOf(i).c2
      [] heap[i].kind = "ResidualBlock" -> ConvOf(heap[i].ch[2]).c2
      [] heap[i].kind \in {"Linear", "Conv2d"} -> heap[i].c2
      [] OTHER -> 0

\* The channel count that reaches position j of the layer sequence q.
ChannelsAt(q, j) ==
    LET before == {i \in 1 .. j - 1 : OutCh(q[i]) # 0}
    IN  IF before = {} THEN InChannels
        ELSE OutCh(q[CHOOSE i \in before : \A i2 \in before : i2 <= i])

Chained(q) ==
    \A j \in 1 .. Len(q) :
       /\ InCh(q[j]) # 0 => InCh(q[j]) = ChannelsAt(q, j)
       /\ heap[q[j]].kind = "ResidualBlock" =>
             /\ OutCh(q[j]) = InCh(q[j])
             /\ ConvOf(heap[q[j]].ch[2]).c1 = ConvOf(heap[q[j]].ch[1]).c2

\* C1: DarkNet19's classifier holds exactly 19 weighted layers (18 Conv blocks
\* in features plus the Conv head) and the classifier of DarkNet53 built with
\* ResidualBlock exactly 53 (52 convolutions plus the final Linear), for every
\* num_classes.
LayerCounts ==
    pc = "built" =>
       /\ \A ms \in {SeqToSet(modules(heap, Classifier(darknet19)))} :
             /\ KindCount(ms, {"Conv2d", "Linear"}) = 19
             /\ KindCount(ms, {"Linear"}) = 0
       /\ TopCount(heap[Features(darknet19)].ch, {"Conv"}) = 18
       /\ TopCount(heap[Classifier(darknet19)].ch, {"Conv"}) = 19
       /\ block53 = "ResidualBlock" =>
             \A ms \in {SeqToSet(modules(heap, Classifier(darknet53)))} :
                /\ KindCount(ms, {"Conv2d", "Linear"}) = 53
                /\ KindCount(ms, {"Conv2d"}) = 52
                /\ KindCount(ms, {"ResidualBlock"}) = 23
                /\ \A i \in ms : heap[i].kind = "Linear" =>
                      heap[i].c1 = 1024 /\ heap[i].c2 = num_classes

LayerCountsWitness ==
    /\ pc = "built"
    /\ block53 = "ResidualBlock"
    /\ num_classes = DriverClasses
    /\ TopCount(heap[Classifier(darknet53)].ch, {"ResidualBlock"}) = 23

\* C2: walking each classifier from 3 input channels, every Conv, ResidualBlock
\* and Linear receives the channel count the preceding channel-changing layer
\* produces, the feature extractor ends with 1024 channels and the head with
\* num_classes.
ChannelSchedule ==
    pc = "built" =>
       /\ \A q \in {heap[Classifier(darknet19)].ch} :
             /\ Chained(q)
             /\ ChannelsAt(q, Len(heap[Features(darknet19)].ch) + 1) = 1024
             /\ ChannelsAt(q, Len(q) + 1) = num_classes
       /\ block53 = "ResidualBlock" =>
             \A q \in {heap[Classifier(darknet53)].ch} :
                /\ Chained(q)
                /\ ChannelsAt(q, Len(heap[Features(darknet53)].ch) + 1) = 1024
                /\ ChannelsAt(q, Len(q) + 1) = num_classes
       /\ \A i \in 1 .. Len(heap) :
             heap[i].kind = "Conv" => heap[heap[i].ch[2]].c1 = ConvOf(i).c2

ChannelScheduleWitness ==
    /\ pc = "built"
    /\ block53 = "ResidualBlock"
    /\ num_classes = 2
    /\ ChannelsAt(heap[Classifier(darknet53)].ch, 30) = 1024
    /\ ChannelsAt(heap[Classifier(darknet19)].ch, 27) = 2

Floor32(n) == n \div 32
Ceil32(n) == (n + 31) \div 32

\* C3 as stated: for every input (N, 3, H, W) with H and W positive multiples
\* of 32, both feature extractors return (N, 1024, H/32, W/32) and both
\* networks return (N, num_classes).
ShapesForEveryMultipleOf32 ==
    (pc = "done" /\ x[3] % 32 = 0 /\ x[4] % 32 = 0) =>
       /\ feat19 = <<x[1], 1024, x[3] \div 32, x[4] \div 32>>
       /\ feat53 = <<x[1], 1024, x[3] \div 32, x[4] \div 32>>
       /\ out19 = <<x[1], num_classes>>
       /\ out53 = <<x[1], num_classes>>

\* C3, amended: the shapes are returned for every such input that leaves more
\* than one value per channel at the last stage, N * (H/32) * (W/32) > 1; for
\* the others, BatchNorm2d (in training mode) raises in all four calls.  The
\* driver's input (1, 3, 256, 256) gives (1, 1000) and (1, 1024, 8, 8).
ShapesForMultiplesOf32 ==
    (pc = "done" /\ x[3] % 32 = 0 /\ x[4] % 32 = 0) =>
       /\ x[1] * (x[3] \div 32) * (x[4] \div 32) > 1 =>
             /\ feat19 = <<x[1], 1024, x[3] \div 32, x[4] \div 32>>
             /\ feat53 = <<x[1], 1024, x[3] \div 32, x[4] \div 32>>
             /\ out19 = <<x[1], num_classes>>
             /\ out53 = <<x[1], num_classes>>
       /\ x[1] * (x[3] \div 32) * (x[4] \div 32) = 1 =>
             feat19 = Err /\ feat53 = Err /\ out19 = Err /\ out53 = Err
       /\ (x = <<1, 3, 256, 256>> /\ num_classes = 1000) =>
             /\ out19 = <<1, 1000>> /\ out53 = <<1, 1000>>
             /\ feat19 = <<1, 1024, 8, 8>> /\ feat53 = <<1, 1024, 8, 8>>

ShapesForMultiplesOf32Witness ==
    /\ pc = "done"
    /\ x = <<1, 3, DriverSize, DriverSize>>
    /\ num_classes = DriverClasses
    /\ block53 = "ResidualBlock"
    /\ out19 = <<1, 1000>>
    /\ feat53 = <<1, 1024, 8, 8>>

IsBlockObj == pc \in {"lib", "libdone"} /\ objargs.cls = "ResidualBlock"

\* The structure of a ResidualBlock(c1): a 1x1 Conv c1 -> c1 // 2, then a
\* 3x3 Conv c1 // 2 -> c1, both of stride 1 and size-preserving, and the
\* data flow layer2(layer1(x)) + x.
BlockStructure(r, c1) ==
    /\ heap[r].kind = "ResidualBlock"
    /\ \A l1 \in {ConvOf(heap[r].ch[1])}, l2 \in {ConvOf(heap[r].ch[2])} :
          /\ l1.c1 = c1 /\ l1.c2 = c1 \div 2 /\ l1.k = 1 /\ l1.s = 1 /\ l1.p = 0
          /\ l2.c1 = c1 \div 2 /\ l2.c2 = c1 /\ l2.k = 3 /\ l2.s = 1 /\ l2.p = 1
    /\ forward_expr(heap, r, <<0>>) =
          forward_expr(heap, heap[r].ch[2],
                       forward_expr(heap, heap[r].ch[1], <<0>>)) \o <<0, AddOp>>
    /\ Len(forward_expr(heap, r, <<0>>)) = 9

\* C4 as stated: for every even c1 >= 2 and every input of shape (N, c1, H, W)
\* the block's output has exactly the shape of the input.
BlockKeepsShapeOfEveryInput ==
    (IsBlockObj /\ pc = "libdone" /\ objargs.c1 % 2 = 0 /\ objin[2] = objargs.c1) =>
       objout = objin

\* C4, amended: ResidualBlock(c1) computes layer2(layer1(x)) + x with a 1x1
\* Conv to c1 // 2 and a 3x3 Conv back to c1; for every even c1 >= 2 and every
\* input (N, c1, H, W) with N * H * W > 1 both layers keep the spatial size
\* and the output has the shape of x, so the addition is defined; with
\* N * H * W = 1 BatchNorm2d (training mode) raises before the addition.
\* Every ResidualBlock of DarkNet53 has an even c1.
BlockKeepsShape ==
    /\ IsBlockObj => BlockStructure(obj, objargs.c1)
    /\ (IsBlockObj /\ pc = "libdone" /\ objargs.c1 % 2 = 0 /\ objin[2] = objargs.c1) =>
          /\ objin[1] * objin[3] * objin[4] > 1 =>
                /\ objout = objin
                /\ forward(heap, heap[obj].ch[1], objin)
                      = <<objin[1], objargs.c1 \div 2, objin[3], objin[4]>>
                /\ forward(heap, heap[obj].ch[2],
                           <<objin[1], objargs.c1 \div 2, objin[3], objin[4]>>) = objin
          /\ objin[1] * objin[3] * objin[4] = 1 =>
                objout = Err /\ forward(heap, heap[obj].ch[1], objin) = Err
    /\ (pc = "built" /\ block53 = "ResidualBlock") =>
          \A i \in 1 .. Len(heap) :
             heap[i].kind = "ResidualBlock" =>
                InCh(i) % 2 = 0 /\ InCh(i) >= 2 /\ BlockStructure(i, InCh(i))

BlockKeepsShapeWitness ==
    /\ IsBlockObj
    /\ pc = "libdone"
    /\ objargs.c1 = 4
    /\ objin = <<1, 4, 2, 2>>
    /\ objout = objin

IsParam(i) == heap[i].kind \in {"Conv2d", "BatchNorm2d", "Linear"}

\* The state in which the initialisation rule of its kind leaves a module.
RuleApplied(m) ==
    CASE m.kind = "Conv2d" ->
            m.w = "kaiming_normal_fan_in_leaky_relu" /\ m.b \in {"none", "zeros"}
      [] m.kind = "BatchNorm2d" -> m.w = "ones" /\ m.b = "zeros"
      [] m.kind = "Linear" -> m.w = "normal_0_001" /\ m.b = "zeros"
      [] OTHER -> TRUE

ConstructedWith(net, flag) ==
    \A i \in SeqToSet(modules(heap, net)) :
       IsParam(i) =>
          IF flag THEN i \in visited /\ RuleApplied(heap[i])
          ELSE i \notin visited /\ heap[i].w = "default"

\* C5: after constructing DarkNet19 or DarkNet53 with init_weight=True, every
\* Conv2d, BatchNorm2d and Linear of the network has been visited by
\* _initialize_weights and has received the rule of its kind; with
\* init_weight=False none has.
InitPolicyApplied ==
    /\ pc = "new53" => ConstructedWith(darknet19, init_weight)
    /\ pc = "built" => ConstructedWith(darknet53, init_weight)

NoDuplicates(q) == \A i, j \in 1 .. Len(q) : q[i] = q[j] => i = j

\* The modules of classifier that follow the shared feature extractor.
HeadOf(net) ==
    SubSeq(heap[Classifier(net)].ch, Len(heap[Features(net)].ch) + 1,
           Len(heap[Classifier(net)].ch))

SharedPrefix(net) ==
    \A f \in {heap[Features(net)].ch}, c \in {heap[Classifier(net)].ch} :
       /\ Len(c) = Len(f) + 3
       /\ SubSeq(c, 1, Len(f)) = f
       /\ NoDuplicates(c)

CountedOnce(net, n) ==
    \A c \in {modules(heap, Classifier(net))}, f \in {modules(heap, Features(net))},
       hd \in {named_children(heap, HeadOf(net), <<>>)} :
       /\ n = SumNumel(heap, c)
       /\ n = SumNumel(heap, f) + SumNumel(heap, hd)
       /\ SumNumel(heap, f) > 0 /\ SumNumel(heap, hd) > 0

\* C6: in both networks the first len(features) modules of classifier are the
\* module instances of features, in order; classifier(x) is the head applied
\* to features(x); and the parameter count counts each parameter once.
FeaturesArePrefix ==
    /\ pc \in {"built", "called"} =>
          SharedPrefix(darknet19) /\ SharedPrefix(darknet53)
    /\ pc = "counted" =>
          CountedOnce(darknet19, nparams19) /\ CountedOnce(darknet53, nparams53)
    /\ pc = "done" =>
          /\ out19 = forward_all(heap, HeadOf(darknet19), feat19)
          /\ out53 = forward_all(heap, HeadOf(darknet53), feat53)

FeaturesArePrefixWitness ==
    /\ pc = "done"
    /\ feat19 # Err /\ out19 # Err /\ feat53 # Err /\ out53 # Err
    /\ nparams19 > 0 /\ nparams53 > nparams19
    /\ heap[Classifier(darknet53)].ch[29] = heap[Features(darknet53)].ch[29]

\* <<position in features, c1, c2, num_blocks>> of the five stages.
Stages53 ==
    << <<2, 32, 64, 1>>, <<4, 64, 128, 2>>, <<7, 128, 256, 8>>,
       <<16, 256, 512, 8>>, <<25, 512, 1024, 4>> >>

IsConvBlock(i, c1, c2, k, s) ==
    /\ heap[i].kind = "Conv"
    /\ \A m \in {ConvOf(i)} : m.c1 = c1 /\ m.c2 = c2 /\ m.k = k /\ m.s = s

IsBlockOf(i, block, c) ==
    IF block = "ResidualBlock"
    THEN heap[i].kind = "ResidualBlock" /\ InCh(i) = c /\ OutCh(i) = c
    ELSE heap[i].kind = "Conv2d" /\ heap[i].c1 = c /\ heap[i].c2 = c

\* C7: _make_layer(block, c, n) returns exactly n blocks, each block(c), for
\* every n >= 0; DarkNet53.features is Conv(3, 32, 3) followed by five stages,
\* each a stride-2 3x3 Conv doubling the channels followed by 1, 2, 8, 8 and 4
\* residual blocks of width 64, 128, 256, 512 and 1024: 29 modules, 23 blocks.
StageSchedule ==
    /\ (pc \in {"lib", "libdone"} /\ objargs.cls = "make_layer") =>
          /\ heap[obj].kind = "Sequential"
          /\ Len(heap[obj].ch) = objargs.n
          /\ NoDuplicates(heap[obj].ch)
          /\ \A j \in 1 .. Len(heap[obj].ch) :
                IsBlockOf(heap[obj].ch[j], objargs.block, objargs.c1)
    /\ pc = "built" =>
          \A q \in {heap[Features(darknet53)].ch} :
             /\ Len(q) = 29
             /\ NoDuplicates(q)
             /\ IsConvBlock(q[1], 3, 32, 3, 1)
             /\ \A st \in SeqToSet(Stages53) :
                   /\ IsConvBlock(q[st[1]], st[2], st[3], 3, 2)
                   /\ st[3] = 2 * st[2]
                   /\ \A j \in st[1] + 1 .. st[1] + st[4] :
                         IsBlockOf(q[j], block53, st[3])
             /\ block53 = "ResidualBlock" => TopCount(q, {"ResidualBlock"}) = 23
             /\ TopCount(q, {"Conv"}) = 6

StageScheduleWitness ==
    /\ pc = "lib"
    /\ objargs.cls = "make_layer"
    /\ objargs.block = "ResidualBlock"
    /\ objargs.n = MaxBlocks
    /\ Len(heap[obj].ch) = MaxBlocks

\* The effect of one initialisation rule on a visited module m, giving m2.
Dispatched(m, m2) ==
    /\ m2 = [m EXCEPT !.w = m2.w, !.b = m2.b]
    /\ CASE m.kind = "Conv2d" ->
               /\ m2.w = "kaiming_normal_fan_in_leaky_relu"
               /\ m.b = "none" => m2.b = "none"
               /\ m.b # "none" => m2.b = "zeros"
         [] m.kind = "BatchNorm2d" -> m2.w = "ones" /\ m2.b = "zeros"
         [] m.kind = "Linear" -> m2.w = "normal_0_001" /\ m2.b = "zeros"
         [] OTHER -> m2 = m

\* C8: in every step, a module visited by _initialize_weights gets the rule of
\* its kind and no other (Conv2d: Kaiming-normal weight, zero bias only if it
\* has a bias; BatchNorm2d: weight 1, bias 0; Linear: normal(0, 0.01) weight,
\* bias 0; any other kind: unchanged), the same in DarkNet19 and DarkNet53,
\* and the parameters of a module that is not visited are left alone.
InitDispatch ==
    [][\A i \in 1 .. Len(heap) :
          IF i \in visited' \ visited
          THEN Dispatched(heap[i], heap'[i])
          ELSE heap'[i].w = heap[i].w /\ heap'[i].b = heap[i].b]_vars

InitDispatchWitness ==
    /\ pc = "called"
    /\ \E i \in visited : heap[i].kind = "Conv2d" /\ heap[i].b = "zeros"
    /\ \E i \in visited : heap[i].kind = "Conv2d" /\ heap[i].b = "none"
                          /\ heap[i].w = "kaiming_normal_fan_in_leaky_relu"
    /\ \E i \in visited : heap[i].kind = "Linear" /\ heap[i].w = "normal_0_001"
    /\ \E i \in visited : heap[i].kind = "BatchNorm2d" /\ heap[i].w = "ones"
    /\ \E i \in visited : heap[i].kind = "LeakyReLU"

\* A Conv block: forward applies a bias-free Conv2d, then BatchNorm2d, then an
\* activation that is LeakyReLU or ReLU.
ConvBlockShape(i) ==
    \A o \in {ConvForwardOrder(heap[i])} :
       /\ heap[o[1]].kind = "Conv2d" /\ heap[o[1]].b = "none"
       /\ heap[o[2]].kind = "BatchNorm2d" /\ heap[o[2]].c1 = heap[o[1]].c2
       /\ heap[o[3]].kind \in {"LeakyReLU", "ReLU"}
       /\ NoDuplicates(o)
       /\ forward_expr(heap, i, <<0>>) = <<0>> \o o

ActOf(i) == heap[ConvForwardOrder(heap[i])[3]].kind

\* C9: every Conv block computes activation(batch_norm(convolution(x))) with a
\* bias-free convolution and always an activation, LeakyReLU for act=True and
\* ReLU for act=False; every Conv block of DarkNet19, DarkNet53 and
\* ResidualBlock, DarkNet19's head included, uses LeakyReLU.
ConvBlocks ==
    /\ pc \in {"lib", "built"} =>
          \A i \in 1 .. Len(heap) : heap[i].kind = "Conv" => ConvBlockShape(i)
    /\ (pc = "lib" /\ objargs.cls = "Conv") =>
          ActOf(obj) = IF objargs.act THEN "LeakyReLU" ELSE "ReLU"
    /\ (pc = "lib" /\ objargs.cls # "Conv") \/ pc = "built" =>
          \A i \in 1 .. Len(heap) : heap[i].kind = "Conv" => ActOf(i) = "LeakyReLU"
    /\ pc = "built" =>
          \A q \in {heap[Classifier(darknet19)].ch} :
             /\ IsConvBlock(q[24], 1024, num_classes, 1, 1)
             /\ ActOf(q[24]) = "LeakyReLU"
             /\ heap[q[25]].kind = "GlobalAvgPool2d"
             /\ heap[q[26]].kind = "Softmax"

ConvBlocksWitness ==
    /\ pc = "lib"
    /\ objargs.cls = "Conv"
    /\ ~objargs.act
    /\ ActOf(obj) = "ReLU"

SizePreserving(m) == m.s = 1 /\ 2 * m.p = m.k - 1

Halving(m) == m.s = 2 /\ m.k = 3 /\ m.p = 1

\* The means of downsampling: five MaxPool2d(2, 2) and stride-1 convolutions in
\* DarkNet19; no pooling and five stride-2 3x3 convolutions in DarkNet53.
Downsamplers ==
    /\ \A ms \in {SeqToSet(modules(heap, Features(darknet19)))} :
          /\ KindCount(ms, {"MaxPool2d"}) = 5
          /\ \A i \in ms :
                /\ heap[i].kind = "MaxPool2d" => heap[i].k = 2 /\ heap[i].s = 2
                /\ heap[i].kind = "Conv2d" => SizePreserving(heap[i])
    /\ \A ms \in {SeqToSet(modules(heap, Features(darknet53)))} :
          /\ KindCount(ms, {"MaxPool2d"}) = 0
          /\ Cardinality({i \in ms : heap[i].kind = "Conv2d" /\ Halving(heap[i])}) = 5
          /\ \A i \in ms :
                heap[i].kind = "Conv2d" => Halving(heap[i]) \/ SizePreserving(heap[i])

\* C10 as stated: DarkNet19's features give height floor(H / 32) for every
\* H >= 32 and DarkNet53's give ceil(H / 32) for every H >= 1 (same for W).
StrideForEveryH ==
    pc = "done" =>
       /\ (x[3] >= 32 /\ x[4] >= 32) =>
             feat19 # Err /\ feat19[3] = Floor32(x[3]) /\ feat19[4] = Floor32(x[4])
       /\ feat53 # Err /\ feat53[3] = Ceil32(x[3]) /\ feat53[4] = Ceil32(x[4])

\* C10, amended: both feature extractors halve five times, DarkNet19 only in
\* its five MaxPool2d(2, 2) and DarkNet53 only in its five stride-2 3x3
\* convolutions; DarkNet19's output is floor(H / 32) x floor(W / 32) for every
\* H, W >= 32 with N * floor(H / 32) * floor(W / 32) > 1, DarkNet53's is
\* ceil(H / 32) x ceil(W / 32) for every H, W >= 1 with
\* N * ceil(H / 32) * ceil(W / 32) > 1, and forward raises for the other
\* inputs; where both are defined the heights agree exactly when H is a
\* multiple of 32.
TotalStride ==
    /\ pc = "built" => Downsamplers
    /\ pc = "done" =>
          /\ feat19 # Err <=>
                /\ x[3] >= 32 /\ x[4] >= 32
                /\ x[1] * Floor32(x[3]) * Floor32(x[4]) > 1
          /\ feat19 # Err =>
                feat19 = <<x[1], 1024, Floor32(x[3]), Floor32(x[4])>>
          /\ feat53 # Err <=> x[1] * Ceil32(x[3]) * Ceil32(x[4]) > 1
          /\ feat53 # Err =>
                feat53 = <<x[1], 1024, Ceil32(x[3]), Ceil32(x[4])>>
          /\ (feat19 # Err /\ feat53 # Err) =>
                /\ feat19[3] = feat53[3] <=> x[3] % 32 = 0
                /\ feat19[4] = feat53[4] <=> x[4] % 32 = 0

TotalStrideWitness ==
    /\ pc = "done"
    /\ x = <<1, 3, 65, 33>>
    /\ feat19 = <<1, 1024, 2, 1>>
    /\ feat53 = <<1, 1024, 3, 2>>

====
